---- MODULE Spec2Model ----
(***************************************************************************)
(* Model of the event -> saga coordination engine of the simulation        *)
(* orchestration server: Registry, ScenarioManager.ProcessEvent, the event *)
(* handler and SagaManager (CreateSaga, dispatchStep, HandleStepCompletion,*)
(* HandleStepFailure, triggerCompensation, lock bookkeeping).              *)
(*                                                                         *)
(* Tasks are the goroutines of the server: the event processor and the     *)
(* handlers of the WebSocket connections that deliver acknowledgments.     *)
(* A call into the SagaManager is split where the code gives up the saga   *)
(* record's lock or performs a network write, so other goroutines          *)
(* interleave where the code lets them.  A fatal runtime error (unlock of  *)
(* an unlocked mutex) ends the process: crashed # "no", and no action is   *)
(* enabled afterwards.                                                     *)
(*                                                                         *)
(*   Spec      one acknowledging connection, simulations register and      *)
(*             disconnect at any time, up to MaxSagas sagas                *)
(*   SpecRace  two acknowledging connections whose handlers run            *)
(*             concurrently, every simulation registered, fewer sagas      *)
(***************************************************************************)
EXTENDS Integers, Sequences, FiniteSets, TLC

\* ---------------------------------------------------------------- bounds
MaxSagas == 2

\* ------------------------------------------------------------ vocabulary
Sims == {"vr", "sensor", "cyber"}

\* the handler goroutines of the connections that deliver acknowledgments
Handlers == {"h1", "h2"}

\* the WebSocket connections that register simulations (SpecConn)
Conns == {"a", "b"}

\* the simulations whose connections send events (SpecQueue)
Producers == {"vr", "sensor"}

\* bufferSize of the event queue (main.go creates it with 1000)
Capacity == 2

\* how many event messages the connections send in all
MaxEvents == 3

\* how many times EventQueue.Close is called
MaxCloses == 2

\* how many rules a scenario drawn for the rule matcher has at most
\* (SpecMatch)
MaxRules == 2

EventTypes == {"alert", "drill"}

SagaStatusPending == "Pending"

SagaStatusInProgress == "InProgress"

SagaStatusCompleted == "Completed"

SagaStatusFailed == "Failed"

SagaStatusCompensating == "Compensating"

StepStatusPending == "Pending"

StepStatusInFlight == "InFlight"

StepStatusCompleted == "Completed"

StepStatusFailed == "Failed"

Terminal == {SagaStatusCompleted, SagaStatusFailed}

\* models.Action
Action(to, cmd, p, ccmd, cp) ==
  [send_to |-> to, command |-> cmd, params |-> p,
   compensate_command |-> ccmd, compensate_params |-> cp]

\* The loaded scenario (models.Scenario.Rules): an ordered list of rules.
\* The action lists they produce:
\*   alert from vr      <<vr>>                  one action, no compensation
\*   alert from sensor  <<vr, cyber>>           two rules match; step 0 has
\*                                              no compensate_command
\*   alert from cyber   <<vr, vr>>              the same target twice
\*   drill from sensor  <<sensor, vr, cyber>>   three steps
\*   drill from vr or cyber                     no rule matches
Rules ==
  << [when |-> [event_type |-> "alert", from |-> ""],
      then |-> << Action("vr", "show_alert", "msg", "", "") >>],
     [when |-> [event_type |-> "alert", from |-> "sensor"],
      then |-> << Action("cyber", "lockdown", "p4", "unlock", "q4") >>],
     [when |-> [event_type |-> "alert", from |-> "cyber"],
      then |-> << Action("vr", "notify", "p3", "dismiss", "q3") >>],
     [when |-> [event_type |-> "drill", from |-> "sensor"],
      then |-> << Action("sensor", "activate", "p0", "deactivate", "q0"),
                  Action("vr", "on", "p1", "off", "q1"),
                  Action("cyber", "isolate", "p2", "restore", "q2") >>] >>

VARIABLES
  scenario,         \* ScenarioManager.scenario: nil or the loaded rule list
  matched,          \* the last ProcessEvent call: its event and its result
  registry,         \* Registry.simulations: simID -> the connection of the
                    \* stored entry, or "none"
  conn,             \* per connection: where its HandleWebSocket call is
  events,           \* EventQueue.events: the buffer of the channel
  closed,           \* EventQueue.closed
  prod,             \* per producer: where its Enqueue call is
  consumerExited,   \* the goroutine of StartProcessor has left its loop
  calls,            \* number of Enqueue calls made
  closes,           \* number of Close calls made
  accepted,         \* history: events whose Enqueue returned true, in order
  rejected,         \* history: events whose Enqueue returned false
  processed,        \* history: events handed to the processor, in order
  replies,          \* history: error/queue_full frames written, per producer
  sagas,            \* SagaManager.sagas: saga records, SagaID = index
  simulationLocks,  \* SagaManager.simulationLocks: simID -> free/locked
  lockHolder,       \* which CreateSaga call locked the mutex (0 = nobody)
  activeSagas,      \* SagaManager.activeSagas: simID -> list of saga ids
  proc,             \* the event processor goroutine: pc and locals
  task,             \* per connection handler goroutine: pc and locals
  sent,             \* per saga: the WriteJSON calls made for it, in order
  completions,      \* per saga: step ids in the order they were set Completed
  notFound,         \* per saga: steps whose compensation found no target registered
  failures,         \* per saga: the step.failed handled for it: the step named
                    \* and the statuses the step and the saga had
  crashed           \* "no", or the fatal runtime error that ended the process

vars == << registry, sagas, simulationLocks, lockHolder,
           activeSagas, proc, task, sent, completions, notFound,
           failures, crashed, conn, events, closed, prod, consumerExited,
           calls, closes, accepted, rejected, processed, replies,
           scenario, matched >>

\* the rule matcher
matchVars == << scenario, matched >>

\* the event queue
queueVars == << events, closed, prod, consumerExited, calls, closes,
                accepted, rejected, processed, replies >>

\* what the saga engine and the registry do not touch
otherVars == << conn, queueVars, matchVars >>

\* ---------------------------------------------------------------- helpers
Range(s) == { s[i] : i \in 1..Len(s) }

SagaIdx == 1..Len(sagas)

\* sm.sagas[sagaID]: exists
Exists(sagaID) == sagaID \in SagaIdx

NonTerminal(s) == sagas[s].Status \notin Terminal

Targets(s) == { sagas[s].Steps[i].TargetSimulation : i \in 1..Len(sagas[s].Steps) }

\* step ids are 0-based in the program; sequences are 1-based here
StepStatus(s, stepID) == sagas[s].Steps[stepID + 1].Status

NumSteps(s) == Len(sagas[s].Steps)

SetStepStatus(sg, stepID, st) ==
  [sg EXCEPT !.Steps[stepID + 1].Status = st]

IdleTask == [pc |-> "idle", saga |-> 0, step |-> 0, i |-> 0, after |-> "none"]

\* a handler that has only its deferred saga.mu.Unlock() left to run
ReturnTask == [IdleTask EXCEPT !.pc = "ret_unlock"]

IdleProc == [pc |-> "idle", saga |-> 0]

\* HandleWebSocket after the upgrade, waiting for the first envelope
NewConn == [pc |-> "new", id |-> "none"]

\* HandleWebSocket has returned (conn.Close() is deferred)
ClosedConn == [pc |-> "closed", id |-> "none"]

\* QueuedEvent{SourceID, Message, Timestamp}: Source is Message.Source,
\* the source field the client wrote ("" when it wrote none); n, the number of the Enqueue
\* call that built it, stands for what tells two queued events apart
QueuedEvent(sourceID, et, w, n) ==
  [SourceID |-> sourceID, EventType |-> et, Source |-> w, n |-> n]

NoEvent == QueuedEvent("none", "none", "", 0)

\* a connection handler that is not inside Enqueue
IdleProd == [pc |-> "idle", ev |-> NoEvent]

\* NewEventQueue: an open queue with an empty buffer; StartProcessor has
\* started the consumer
InitQueue ==
  /\ events = << >>
  /\ closed = FALSE
  /\ prod = [p \in Producers |-> IdleProd]
  /\ consumerExited = FALSE
  /\ calls = 0
  /\ closes = 0
  /\ accepted = << >>
  /\ rejected = << >>
  /\ processed = << >>
  /\ replies = [p \in Producers |-> << >>]

\* ------------------------------------------------------------ Rule matcher
\* sm.scenario = nil: NewScenarioManager, or a failed initial load
NoScenario == [loaded |-> FALSE, rules |-> << >>]

\* sm.scenario after LoadScenarioFromBytes
Loaded(rs) == [loaded |-> TRUE, rules |-> rs]

\* no ProcessEvent call has been made
NoCall == [called |-> FALSE, event |-> [EventType |-> "", Source |-> ""],
           actions |-> << >>]

\* the rule names a source and it is not the event's
SourceDiffers_EmptyToo(rule, event) == rule.when.from # event.Source

SourceDiffers(rule, event) ==
  rule.when.from # "" /\ rule.when.from # event.Source

\* the loop of ProcessEvent from rule r (1-based) on
RECURSIVE MatchFrom(_, _)
MatchFrom(event, r) ==
  IF r > Len(scenario.rules) THEN << >>
  ELSE LET rule == scenario.rules[r]
       IN IF rule.when.event_type # event.EventType
          THEN MatchFrom(event, r + 1)
          ELSE IF SourceDiffers(rule, event)
               THEN MatchFrom(event, r + 1)
               ELSE rule.then \o MatchFrom(event, r + 1)

ProcessEvent(event) ==
  IF ~scenario.loaded THEN << >> ELSE MatchFrom(event, 1)

\* ---------------------------------------------------------------- Registry
\* Registry.simulations maps an id to the entry registered under it, which
\* holds the connection (the send-handle).  Spec and SpecRace do not tell
\* connections apart: every entry they store holds the connection "a".

\* gorilla conn.WriteJSON on a registered connection: nil, or an error when
\* the peer has gone or the connection has been closed.
WriteOutcomes == {TRUE, FALSE}

\* Registry.Register
Register(reg, id, c) == [reg EXCEPT ![id] = c]

\* Registry.Unregister
Unregister(reg, id) == [reg EXCEPT ![id] = "none"]

\* Registry.Get: exists
Get(id) == registry[id] # "none"

Init ==
  /\ scenario \in {Loaded(Rules), NoScenario}
  /\ matched = NoCall
  /\ registry = [x \in Sims |-> "none"]
  /\ conn = [c \in Conns |-> NewConn]
  /\ InitQueue
  /\ sagas = << >>
  /\ simulationLocks = [x \in Sims |-> "free"]
  /\ lockHolder = [x \in Sims |-> 0]
  /\ activeSagas = [x \in Sims |-> << >>]
  /\ proc = IdleProc
  /\ task = [h \in Handlers |-> IdleTask]
  /\ sent = << >>
  /\ completions = << >>
  /\ notFound = << >>
  /\ failures = << >>
  /\ crashed = "no"

Running == crashed = "no"

\* HandleWebSocket, first envelope: a register message with id; an entry
\* for id is stored (replacing the one that was there).
HandleRegister(id) ==
  /\ Running
  /\ ~Get(id)
  /\ registry' = Register(registry, id, "a")
  /\ UNCHANGED << sagas, simulationLocks, lockHolder, activeSagas,
                  proc, task, sent, completions, notFound, failures, crashed >>
  /\ UNCHANGED otherVars

\* HandleWebSocket: ReadJSON fails, the loop breaks and the id is
\* unregistered.
HandleDisconnect(id) ==
  /\ Running
  /\ Get(id)
  /\ registry' = Unregister(registry, id)
  /\ UNCHANGED << sagas, simulationLocks, lockHolder, activeSagas,
                  proc, task, sent, completions, notFound, failures, crashed >>
  /\ UNCHANGED otherVars

\* ------------------------------------------------------------- SagaManager
\* CheckConflict: the ids tracked on simID whose saga is InProgress or Pending
CheckConflict(simID) ==
  SelectSeq(activeSagas[simID],
            LAMBDA id : Exists(id) /\ sagas[id].Status \in
                          {SagaStatusInProgress, SagaStatusPending})

\* CreateSaga, first loop: does any action's target have a conflict
HasConflict(actions) ==
  \E k \in 1..Len(actions) : CheckConflict(actions[k].send_to) # << >>

\* acquireSimulationLock: TryLock on the mutex of simID (a mutex that does
\* not exist yet is created unlocked, so a missing entry counts as free)
TryLock(locks, simID) == locks[simID] # "locked"

\* CreateSaga, second loop: TryLock each action's target in order.  On the
\* first failure every lock taken so far is released again.
RECURSIVE AcquireFrom(_, _, _, _)
AcquireFrom(locks, actions, k, taken) ==
  IF k > Len(actions) THEN [ok |-> TRUE, locks |-> locks]
  ELSE LET simID == actions[k].send_to
       IN IF TryLock(locks, simID)
          THEN AcquireFrom([locks EXCEPT ![simID] = "locked"], actions, k + 1,
                           taken \cup {simID})
          ELSE [ok |-> FALSE,
                locks |-> [x \in Sims |-> IF x \in taken THEN "free" ELSE locks[x]]]

AcquireAll(actions) == AcquireFrom(simulationLocks, actions, 1, {})

\* CreateSaga: actions -> SagaSteps, all Pending
MakeSteps(actions) ==
  [k \in 1..Len(actions) |->
     [StepID |-> k - 1,
      TargetSimulation |-> actions[k].send_to,
      Command |-> actions[k].command,
      CompensateCommand |-> actions[k].compensate_command,
      Params |-> actions[k].params,
      CompensateParams |-> actions[k].compensate_params,
      Status |-> StepStatusPending]]

\* CreateSaga: the new saga's id.  time.Now().UnixNano() of a later call is
\* a later reading, so ids are handed out in creation order.
NewSagaID == Len(sagas) + 1

MakeSaga(sagaID, actions) ==
  [SagaID |-> sagaID,
   CurrentStep |-> 0,
   Status |-> SagaStatusPending,
   Steps |-> MakeSteps(actions),
   lockedSims |-> [k \in 1..Len(actions) |-> actions[k].send_to]]

\* trackActiveSimulation for every locked simulation
TrackAll(act, sims, sagaID) ==
  [x \in Sims |-> IF x \in Range(sims) THEN Append(act[x], sagaID) ELSE act[x]]

\* untrackActiveSimulation: removes the first occurrence of sagaID
RemoveFirst(s, id) ==
  IF \E k \in 1..Len(s) : s[k] = id
  THEN LET k == CHOOSE j \in 1..Len(s) : s[j] = id /\ \A h \in 1..(j - 1) : s[h] # id
       IN SubSeq(s, 1, k - 1) \o SubSeq(s, k + 1, Len(s))
  ELSE s

\* cleanupSimulationLocks: untrack the saga on each of its targets
cleanupSimulationLocks(act, s) ==
  [x \in Sims |-> IF x \in Targets(s) THEN RemoveFirst(act[x], sagas[s].SagaID)
                  ELSE act[x]]

\* releaseAllLocksForSaga / the release loop of CreateSaga: Unlock every
\* mutex of the list in order.  sync.Mutex.Unlock of a mutex that is not
\* locked is a fatal error; the mutexes unlocked before it stay unlocked.
RECURSIVE UnlockFrom(_, _, _)
UnlockFrom(locks, sims, k) ==
  IF k > Len(sims) THEN [fatal |-> FALSE, locks |-> locks]
  ELSE IF locks[sims[k]] = "free" THEN [fatal |-> TRUE, locks |-> locks]
  ELSE UnlockFrom([locks EXCEPT ![sims[k]] = "free"], sims, k + 1)

releaseAllLocksForSaga(s) == UnlockFrom(simulationLocks, sagas[s].lockedSims, 1)

HolderAfter(locks) == [x \in Sims |-> IF locks[x] = "locked" THEN lockHolder[x] ELSE 0]

\* the command envelope written by dispatchStep / triggerCompensation,
\* with the id it was written to, the connection whose WriteJSON was
\* called and whether it returned nil
Frame(s, stepID, kind, c, ok) ==
  LET step == sagas[s].Steps[stepID + 1]
  IN [type |-> "command",
      command |-> IF kind = "forward" THEN step.Command ELSE step.CompensateCommand,
      params |-> IF kind = "forward" THEN step.Params ELSE step.CompensateParams,
      saga_id |-> sagas[s].SagaID,
      step_id |-> stepID,
      kind |-> kind, to |-> c, via |-> registry[c], ok |-> ok]

\* ---------------------------------------------------- the event processor
\* The processor goroutine calls the event handler (CreateEventHandler)
\* with the next event of the queue: an event of type et that source sent.
\* CreateEventHandler: no rule matched, the handler returns
NoActions_Never(actions) == FALSE

NoActions(actions) == Len(actions) = 0

\* ProcessEvent, then CreateSaga up to the point where the saga is published
\* and tracked (conflict check, lock acquisition, record, sm.sagas, tracking).
\* At most limit sagas are created.
EventHandler(source, et, limit) ==
  /\ Running
  /\ proc.pc = "idle"
  /\ LET actions == ProcessEvent([EventType |-> et, Source |-> source])
         acq == AcquireAll(actions)
         sagaID == NewSagaID
     IN IF NoActions(actions) \/ HasConflict(actions)
           THEN UNCHANGED << sagas, simulationLocks, lockHolder, activeSagas,
                             proc, sent, completions, notFound, failures >>
           ELSE IF ~acq.ok
           THEN /\ simulationLocks' = acq.locks
                /\ UNCHANGED << sagas, lockHolder, activeSagas, proc, sent,
                                completions, notFound, failures >>
           ELSE /\ Len(sagas) < limit
                /\ simulationLocks' = acq.locks
                /\ lockHolder' = [x \in Sims |->
                      IF \E k \in 1..Len(actions) : actions[k].send_to = x
                      THEN sagaID ELSE lockHolder[x]]
                /\ sagas' = Append(sagas, MakeSaga(sagaID, actions))
                /\ activeSagas' = TrackAll(activeSagas,
                      [k \in 1..Len(actions) |-> actions[k].send_to], sagaID)
                /\ sent' = Append(sent, << >>)
                /\ completions' = Append(completions, << >>)
                /\ notFound' = Append(notFound, {})
                /\ failures' = Append(failures, << >>)
                /\ proc' = [pc |-> "cs_dispatch", saga |-> sagaID]
  /\ UNCHANGED << registry, task, crashed >>

\* CreateSaga: dispatchStep(saga, 0) up to and including WriteJSON.  If the
\* target is not registered or the write fails, CreateSaga releases the
\* locks, untracks the saga and marks it Failed.
CreateSagaDispatch ==
  /\ Running
  /\ proc.pc = "cs_dispatch"
  /\ LET s == proc.saga
         c == sagas[s].Steps[1].TargetSimulation
         rel == releaseAllLocksForSaga(s)
         fail ==
           /\ simulationLocks' = rel.locks
           /\ lockHolder' = HolderAfter(rel.locks)
           /\ IF rel.fatal
              THEN /\ crashed' = "unlock of unlocked mutex"
                   /\ UNCHANGED << sagas, activeSagas, proc >>
              ELSE /\ activeSagas' = cleanupSimulationLocks(activeSagas, s)
                   /\ sagas' = [sagas EXCEPT ![s].Status = SagaStatusFailed]
                   /\ proc' = IdleProc
                   /\ UNCHANGED crashed
     IN IF ~Get(c)
        THEN fail /\ UNCHANGED sent
        ELSE \E ok \in WriteOutcomes :
               /\ sent' = [sent EXCEPT ![s] = Append(@, Frame(s, 0, "forward", c, ok))]
               /\ IF ok
                  THEN /\ proc' = [proc EXCEPT !.pc = "cs_mark"]
                       /\ UNCHANGED << sagas, simulationLocks, lockHolder,
                                       activeSagas, crashed >>
                  ELSE fail
  /\ UNCHANGED << registry, task, completions, notFound, failures >>
  /\ UNCHANGED otherVars

\* dispatchStep, after a successful write: the step becomes InFlight and a
\* Pending saga becomes InProgress.
MarkInFlight(sg, stepID) ==
  [SetStepStatus(sg, stepID, StepStatusInFlight) EXCEPT
     !.Status = IF sg.Status = SagaStatusPending THEN SagaStatusInProgress
                ELSE sg.Status]

CreateSagaMark ==
  /\ Running
  /\ proc.pc = "cs_mark"
  /\ sagas' = [sagas EXCEPT ![proc.saga] = MarkInFlight(@, 0)]
  /\ proc' = IdleProc
  /\ UNCHANGED << registry, simulationLocks, lockHolder,
                  activeSagas, task, sent, completions, notFound, failures, crashed >>
  /\ UNCHANGED otherVars

\* ------------------------------------------------- connection handlers
\* values a client can put in the saga_id and step_id fields of an envelope
\* (the ids of the sagas that can exist, and one that names no saga)
WireSagaIDs(limit) == 1..(limit + 1)

WireStepIDs == -1..3

CanReceive(c) ==
  /\ Running
  /\ task[c].pc = "idle"

\* a completion handler without the in-flight check
StepInFlight_NoCheck(s, stepID) == TRUE

\* a completion handler that only refuses a step already Completed
StepInFlight_NotYetCompleted(s, stepID) == StepStatus(s, stepID) # StepStatusCompleted

\* HandleStepCompletion: "check if this step is actually in flight"
StepInFlight(s, stepID) == StepStatus(s, stepID) = StepStatusInFlight

\* HandleStepCompletion, from the lookup to the first release of saga.mu:
\* unknown saga, invalid step id and a step that is not InFlight return
\* without any change; otherwise the step becomes Completed and either the
\* saga becomes Completed (last step) or CurrentStep advances.
HandleStepCompletion(c, sagaID, stepID) ==
  /\ CanReceive(c)
  /\ IF ~Exists(sagaID)
     THEN UNCHANGED << sagas, task, completions >>
     ELSE IF stepID < 0 \/ stepID >= NumSteps(sagaID)
     THEN UNCHANGED << sagas, task, completions >>
     ELSE IF ~StepInFlight(sagaID, stepID)
     THEN UNCHANGED << sagas, task, completions >>
     ELSE /\ completions' = [completions EXCEPT ![sagaID] = Append(@, stepID)]
          /\ IF stepID = NumSteps(sagaID) - 1
             THEN /\ sagas' = [sagas EXCEPT ![sagaID] =
                        [SetStepStatus(@, stepID, StepStatusCompleted) EXCEPT
                           !.Status = SagaStatusCompleted]]
                  /\ task' = [task EXCEPT ![c] =
                        [pc |-> "sc_cleanup", saga |-> sagaID, step |-> 0,
                         i |-> 0, after |-> "none"]]
             ELSE /\ sagas' = [sagas EXCEPT ![sagaID] =
                        [SetStepStatus(@, stepID, StepStatusCompleted) EXCEPT
                           !.CurrentStep = stepID + 1]]
                  /\ task' = [task EXCEPT ![c] =
                        [pc |-> "sc_dispatch", saga |-> sagaID, step |-> stepID,
                         i |-> 0, after |-> "none"]]
  /\ UNCHANGED << registry, simulationLocks, lockHolder,
                  activeSagas, proc, sent, notFound, failures, crashed >>
  /\ UNCHANGED otherVars

\* HandleStepCompletion / HandleStepFailure: cleanupSimulationLocks and
\* releaseAllLocksForSaga, after which only the deferred Unlock remains.
ReleaseAndCleanup(c) ==
  /\ Running
  /\ task[c].pc \in {"sc_cleanup", "sf_cleanup"}
  /\ LET s == task[c].saga
         rel == releaseAllLocksForSaga(s)
     IN /\ activeSagas' = cleanupSimulationLocks(activeSagas, s)
        /\ simulationLocks' = rel.locks
        /\ lockHolder' = HolderAfter(rel.locks)
        /\ IF rel.fatal
           THEN crashed' = "unlock of unlocked mutex" /\ UNCHANGED task
           ELSE task' = [task EXCEPT ![c] = ReturnTask] /\ UNCHANGED crashed
  /\ UNCHANGED << registry, sagas, proc, sent, completions, notFound, failures >>
  /\ UNCHANGED otherVars

\* The deferred saga.mu.Unlock() of a handler that has already unlocked
\* saga.mu itself: sync.RWMutex.Unlock of an unlocked RWMutex is fatal.
DeferredUnlock(c) ==
  /\ Running
  /\ task[c].pc = "ret_unlock"
  /\ crashed' = "Unlock of unlocked RWMutex"
  /\ UNCHANGED << registry, sagas, simulationLocks, lockHolder,
                  activeSagas, proc, task, sent, completions, notFound, failures >>
  /\ UNCHANGED otherVars

\* HandleStepCompletion: dispatchStep(saga, stepID+1) up to and including
\* WriteJSON.  On an error the handler goes on to
\* triggerCompensation(saga, stepID).
CompensateFrom_Below(stepID) == stepID - 1

\* HandleStepCompletion: triggerCompensation(saga, stepID) after a failed
\* dispatch of step stepID + 1 starts at the step just completed
CompensateFrom(stepID) == stepID

NextStepDispatch(c) ==
  /\ Running
  /\ task[c].pc = "sc_dispatch"
  /\ LET s == task[c].saga
         next == task[c].step + 1
         to == sagas[s].Steps[next + 1].TargetSimulation
         comp == [task EXCEPT ![c] = [pc |-> "comp_begin", saga |-> s, step |-> 0,
                                      i |-> CompensateFrom(task[c].step),
                                      after |-> "sc"]]
     IN IF ~Get(to)
        THEN task' = comp /\ UNCHANGED sent
        ELSE \E ok \in WriteOutcomes :
               /\ sent' = [sent EXCEPT ![s] = Append(@, Frame(s, next, "forward", to, ok))]
               /\ task' = IF ok THEN [task EXCEPT ![c].pc = "sc_mark"] ELSE comp
  /\ UNCHANGED << registry, sagas, simulationLocks, lockHolder,
                  activeSagas, proc, completions, notFound, failures, crashed >>
  /\ UNCHANGED otherVars

\* dispatchStep after the write, then HandleStepCompletion re-locks saga.mu
\* and returns: the deferred Unlock finds the lock held.
NextStepMark(c) ==
  /\ Running
  /\ task[c].pc = "sc_mark"
  /\ sagas' = [sagas EXCEPT ![task[c].saga] = MarkInFlight(@, task[c].step + 1)]
  /\ task' = [task EXCEPT ![c] = IdleTask]
  /\ UNCHANGED << registry, simulationLocks, lockHolder,
                  activeSagas, proc, sent, completions, notFound, failures, crashed >>
  /\ UNCHANGED otherVars

\* a compensation that starts one step too low
FirstToCompensate_OffByOne(stepID) == stepID - 2

\* HandleStepFailure: triggerCompensation(saga, stepID-1), "compensate up
\* to the step before the failed one"
FirstToCompensate(stepID) == stepID - 1

\* HandleStepFailure, from the lookup to the release of saga.mu: the named
\* step and the saga become Failed, whatever their status was.
HandleStepFailure(c, sagaID, stepID) ==
  /\ CanReceive(c)
  /\ IF ~Exists(sagaID)
     THEN UNCHANGED << sagas, task, failures >>
     ELSE IF stepID < 0 \/ stepID >= NumSteps(sagaID)
     THEN UNCHANGED << sagas, task, failures >>
     ELSE /\ sagas' = [sagas EXCEPT ![sagaID] =
                [SetStepStatus(@, stepID, StepStatusFailed) EXCEPT
                   !.Status = SagaStatusFailed]]
          /\ failures' = [failures EXCEPT ![sagaID] =
                Append(@, [step |-> stepID, was |-> StepStatus(sagaID, stepID),
                           saga |-> sagas[sagaID].Status])]
          /\ task' = [task EXCEPT ![c] =
                [pc |-> "comp_begin", saga |-> sagaID, step |-> 0,
                 i |-> FirstToCompensate(stepID), after |-> "sf"]]
  /\ UNCHANGED << registry, simulationLocks, lockHolder,
                  activeSagas, proc, sent, completions, notFound, crashed >>
  /\ UNCHANGED otherVars

\* a compensation that looks for the steps still in flight
ShouldCompensate_InFlight(status) == status = StepStatusInFlight

\* triggerCompensation: only a step whose status is Completed is compensated
ShouldCompensate(status) == status = StepStatusCompleted

\* triggerCompensation, first critical section: the saga becomes Compensating
CompensationBegin(c) ==
  /\ Running
  /\ task[c].pc = "comp_begin"
  /\ sagas' = [sagas EXCEPT ![task[c].saga].Status = SagaStatusCompensating]
  /\ task' = [task EXCEPT ![c].pc = "comp_loop"]
  /\ UNCHANGED << registry, simulationLocks, lockHolder,
                  activeSagas, proc, sent, completions, notFound, failures, crashed >>
  /\ UNCHANGED otherVars

\* triggerCompensation, one iteration of the loop up to and including
\* WriteJSON (i >= 0), or the final critical section that marks the saga
\* Failed (i < 0).
CompensationStep(c) ==
  /\ Running
  /\ task[c].pc = "comp_loop"
  /\ LET s == task[c].saga
         i == task[c].i
         skip == [task EXCEPT ![c].i = i - 1]
     IN IF i < 0
        THEN /\ sagas' = [sagas EXCEPT ![s].Status = SagaStatusFailed]
             /\ task' = [task EXCEPT ![c] =
                   IF task[c].after = "sf"
                   THEN [IdleTask EXCEPT !.pc = "sf_cleanup", !.saga = s]
                   ELSE ReturnTask]
             /\ UNCHANGED << sent, notFound, failures >>
        ELSE /\ UNCHANGED sagas
             /\ IF ~ShouldCompensate(StepStatus(s, i))
                THEN task' = skip /\ UNCHANGED << sent, notFound, failures >>
                ELSE IF sagas[s].Steps[i + 1].CompensateCommand = ""
                THEN task' = skip /\ UNCHANGED << sent, notFound, failures >>
                ELSE LET to == sagas[s].Steps[i + 1].TargetSimulation
                     IN IF ~Get(to)
                        THEN /\ task' = skip
                             /\ notFound' = [notFound EXCEPT ![s] = @ \cup {i}]
                             /\ UNCHANGED << sent, failures >>
                        ELSE \E ok \in WriteOutcomes :
                               /\ sent' = [sent EXCEPT ![s] =
                                     Append(@, Frame(s, i, "compensate", to, ok))]
                               /\ task' = IF ok
                                          THEN [task EXCEPT ![c].pc = "comp_mark"]
                                          ELSE skip
                               /\ UNCHANGED << notFound, failures >>
  /\ UNCHANGED << registry, simulationLocks, lockHolder,
                  activeSagas, proc, completions, crashed >>
  /\ UNCHANGED otherVars

\* triggerCompensation, after a successful compensation write: the step is
\* marked Failed and the loop goes on with the step before it.
CompensationMark(c) ==
  /\ Running
  /\ task[c].pc = "comp_mark"
  /\ sagas' = [sagas EXCEPT ![task[c].saga] =
                 SetStepStatus(@, task[c].i, StepStatusFailed)]
  /\ task' = [task EXCEPT ![c].pc = "comp_loop", ![c].i = task[c].i - 1]
  /\ UNCHANGED << registry, simulationLocks, lockHolder,
                  activeSagas, proc, sent, completions, notFound, failures, crashed >>
  /\ UNCHANGED otherVars

\* ------------------------------------------------------------ the system
\* the steps of the processor and of the handlers in H
Engine(S, H, limit) ==
  \/ \E source \in S, et \in EventTypes :
       EventHandler(source, et, limit) /\ UNCHANGED otherVars
  \/ CreateSagaDispatch
  \/ CreateSagaMark
  \/ \E c \in H, sagaID \in WireSagaIDs(limit), stepID \in WireStepIDs :
       HandleStepCompletion(c, sagaID, stepID)
  \/ \E c \in H, sagaID \in WireSagaIDs(limit), stepID \in WireStepIDs :
       HandleStepFailure(c, sagaID, stepID)
  \/ \E c \in H : ReleaseAndCleanup(c)
  \/ \E c \in H : DeferredUnlock(c)
  \/ \E c \in H : NextStepDispatch(c)
  \/ \E c \in H : NextStepMark(c)
  \/ \E c \in H : CompensationBegin(c)
  \/ \E c \in H : CompensationStep(c)
  \/ \E c \in H : CompensationMark(c)

Next ==
  \/ \E id \in Sims : HandleRegister(id)
  \/ \E id \in Sims : HandleDisconnect(id)
  \/ Engine(Sims, {"h1"}, MaxSagas)

Spec == Init /\ [][Next]_vars

\* Every simulation is registered and stays registered; acknowledgments
\* arrive on two connections.
InitRace ==
  /\ scenario \in {Loaded(Rules), NoScenario}
  /\ matched = NoCall
  /\ registry = [x \in Sims |-> "a"]
  /\ conn = [c \in Conns |-> NewConn]
  /\ InitQueue
  /\ sagas = << >>
  /\ simulationLocks = [x \in Sims |-> "free"]
  /\ lockHolder = [x \in Sims |-> 0]
  /\ activeSagas = [x \in Sims |-> << >>]
  /\ proc = IdleProc
  /\ task = [h \in Handlers |-> IdleTask]
  /\ sent = << >>
  /\ completions = << >>
  /\ notFound = << >>
  /\ failures = << >>
  /\ crashed = "no"

\* SpecRace runs the two handlers on the sagas of sensor's events: two
\* steps (alert) or three (drill)
RaceSources == {"sensor"}

NextRace == Engine(RaceSources, Handlers, MaxSagas - 1)

\* ------------------------------------------------------------ connections
\* HandleWebSocket: the first envelope is {type: register, id}.  The entry
\* for id is stored (replacing the one that was there) and the reply
\* {type: registered, status: ok} is written; if that write fails the
\* handler returns.
ConnRegister(c, id) ==
  /\ Running
  /\ conn[c].pc = "new"
  /\ registry' = Register(registry, id, c)
  /\ \E ok \in WriteOutcomes :
       conn' = [conn EXCEPT ![c] =
                  IF ok THEN [pc |-> "registered", id |-> id] ELSE ClosedConn]
  /\ UNCHANGED << sagas, simulationLocks, lockHolder, activeSagas, proc, task,
                  sent, completions, notFound, failures, crashed >>
  /\ UNCHANGED << queueVars, matchVars >>

\* HandleWebSocket: the first envelope cannot be read, is not a register
\* message or has an empty id: the handler returns.
ConnReject(c) ==
  /\ Running
  /\ conn[c].pc = "new"
  /\ conn' = [conn EXCEPT ![c] = ClosedConn]
  /\ UNCHANGED << registry, sagas, simulationLocks, lockHolder, activeSagas,
                  proc, task, sent, completions, notFound, failures, crashed >>
  /\ UNCHANGED << queueVars, matchVars >>

\* HandleWebSocket: ReadJSON fails in the message loop; the loop breaks,
\* reg.Unregister(simID) deletes the entry of the id and the handler returns.
ConnClose(c) ==
  /\ Running
  /\ conn[c].pc = "registered"
  /\ registry' = Unregister(registry, conn[c].id)
  /\ conn' = [conn EXCEPT ![c] = ClosedConn]
  /\ UNCHANGED << sagas, simulationLocks, lockHolder, activeSagas, proc, task,
                  sent, completions, notFound, failures, crashed >>
  /\ UNCHANGED << queueVars, matchVars >>

NextConn ==
  \/ \E c \in Conns, id \in Sims : ConnRegister(c, id)
  \/ \E c \in Conns : ConnReject(c)
  \/ \E c \in Conns : ConnClose(c)
  \/ Engine(Sims, {"h1"}, MaxSagas - 1)

SpecConn == Init /\ [][NextConn]_vars

\* HandleWebSocket, the registration in two steps.  RegisterBegin: the
\* entry for id is stored and conn.WriteJSON of the reply has begun.
RegisterBegin(c, id) ==
  /\ Running
  /\ conn[c].pc = "new"
  /\ registry' = Register(registry, id, c)
  /\ conn' = [conn EXCEPT ![c] = [pc |-> "replying", id |-> id]]
  /\ UNCHANGED << sagas, simulationLocks, lockHolder, activeSagas, proc, task,
                  sent, completions, notFound, failures, crashed >>
  /\ UNCHANGED << queueVars, matchVars >>

\* RegisterEnd: conn.WriteJSON of the reply returns; on an error the handler
\* returns.
RegisterEnd(c) ==
  /\ Running
  /\ conn[c].pc = "replying"
  /\ \E ok \in WriteOutcomes :
       conn' = [conn EXCEPT ![c] =
                  IF ok THEN [pc |-> "registered", id |-> conn[c].id]
                  ELSE ClosedConn]
  /\ UNCHANGED << registry, sagas, simulationLocks, lockHolder, activeSagas,
                  proc, task, sent, completions, notFound, failures, crashed >>
  /\ UNCHANGED << queueVars, matchVars >>

NextWrite ==
  \/ \E c \in Conns, id \in Sims : RegisterBegin(c, id)
  \/ \E c \in Conns : RegisterEnd(c)
  \/ \E c \in Conns : ConnReject(c)
  \/ \E c \in Conns : ConnClose(c)
  \/ Engine(Sims, {"h1"}, MaxSagas - 1)

SpecWrite == Init /\ [][NextWrite]_vars

\* the first envelope of a connection: Message{Type, ID}; the type
\* "unreadable" stands for bytes conn.ReadJSON cannot decode (it returns an
\* error), the id "" for a message without an id
FirstTypes == {"register", "event", "step.completed", "unreadable"}

FirstEnvelopes == [type : FirstTypes, id : Sims \cup {""}]

\* a registration check that forgets the message type
IsRegistration_AnyType(msg) == msg.type # "unreadable" /\ msg.id # ""

\* HandleWebSocket: the three tests the first envelope has to pass
IsRegistration(msg) ==
  /\ msg.type # "unreadable"
  /\ msg.type = "register"
  /\ msg.id # ""

\* HandleWebSocket from the first ReadJSON to the message loop
ConnFirst(c, msg) ==
  IF IsRegistration(msg) THEN ConnRegister(c, msg.id) ELSE ConnReject(c)

NextFirst ==
  \/ \E c \in Conns, msg \in FirstEnvelopes : ConnFirst(c, msg)
  \/ \E c \in Conns : ConnClose(c)
  \/ Engine(RaceSources, {"h1"}, MaxSagas - 1)

SpecFirst == Init /\ [][NextFirst]_vars

\* what the message loop of a registered connection reads next: an envelope
\* with a type the switch does not know, bytes that are no Message
\* (malformed JSON, a field of the wrong type), or the end of the connection
LoopEnvelopes == {"unknown", "malformed", "gone"}

\* conn.ReadJSON returns an error: the JSON decoder's or the connection's
ReadFails(env) == env \in {"malformed", "gone"}

\* HandleWebSocket, one iteration of the message loop: a read error breaks
\* the loop (Unregister, return); an unknown type is logged and the loop
\* goes on.
ConnRead(c, env) ==
  IF ReadFails(env)
  THEN ConnClose(c)
  ELSE /\ Running
       /\ conn[c].pc = "registered"
       /\ UNCHANGED vars

NextRead ==
  \/ \E c \in Conns, id \in Sims : ConnRegister(c, id)
  \/ \E c \in Conns : ConnReject(c)
  \/ \E c \in Conns, env \in LoopEnvelopes : ConnRead(c, env)
  \/ Engine(RaceSources, {"h1"}, MaxSagas - 1)

SpecRead == Init /\ [][NextRead]_vars

\* ------------------------------------------------------------ saga ids
\* the readings time.Now().UnixNano() can return
MaxClock == 2

\* the reading CreateSaga got the last time it made a saga id
LastReading == IF Len(sagas) = 0 THEN 1 ELSE sagas[Len(sagas)].SagaID

\* time.Now().UnixNano() in a later call of CreateSaga: the clock has not
\* gone back, and has moved on by a multiple of its resolution (none, when
\* the two calls fall into the same tick)
ClockReadings == LastReading..MaxClock

\* sm.sagas[sagaID]: the record published last under that id
Lookup(sagaID) ==
  LET found == {i \in SagaIdx : sagas[i].SagaID = sagaID}
  IN IF found = {} THEN 0
     ELSE CHOOSE i \in found : \A j \in found : j <= i

\* The event handler with the saga id as CreateSaga makes it,
\* saga_<UnixNano>: now is the reading of the clock.  The record is the
\* next object (its index in sagas), published and tracked under the id.
EventHandlerAt(source, et, now) ==
  /\ Running
  /\ proc.pc = "idle"
  /\ LET actions == ProcessEvent([EventType |-> et, Source |-> source])
         acq == AcquireAll(actions)
         obj == Len(sagas) + 1
     IN IF NoActions(actions) \/ HasConflict(actions)
           THEN UNCHANGED << sagas, simulationLocks, lockHolder, activeSagas,
                             proc, sent, completions, notFound, failures >>
           ELSE IF ~acq.ok
           THEN /\ simulationLocks' = acq.locks
                /\ UNCHANGED << sagas, lockHolder, activeSagas, proc, sent,
                                completions, notFound, failures >>
           ELSE /\ Len(sagas) < MaxSagas
                /\ simulationLocks' = acq.locks
                /\ lockHolder' = [x \in Sims |->
                      IF \E k \in 1..Len(actions) : actions[k].send_to = x
                      THEN obj ELSE lockHolder[x]]
                /\ sagas' = Append(sagas, MakeSaga(now, actions))
                /\ activeSagas' = TrackAll(activeSagas,
                      [k \in 1..Len(actions) |-> actions[k].send_to], now)
                /\ sent' = Append(sent, << >>)
                /\ completions' = Append(completions, << >>)
                /\ notFound' = Append(notFound, {})
                /\ failures' = Append(failures, << >>)
                /\ proc' = [pc |-> "cs_dispatch", saga |-> obj]
  /\ UNCHANGED << registry, task, crashed >>
  /\ UNCHANGED otherVars

\* the event processor alone, simulations registering and leaving
NextClock ==
  \/ \E id \in Sims : HandleRegister(id)
  \/ \E id \in Sims : HandleDisconnect(id)
  \/ \E source \in Sims, et \in EventTypes, now \in ClockReadings :
       EventHandlerAt(source, et, now)
  \/ CreateSagaDispatch
  \/ CreateSagaMark

SpecClock == Init /\ [][NextClock]_vars

\* ------------------------------------------------- answering simulations
\* The target of step stepID of saga sagaID answers the command it has
\* received, once the step is InFlight: handleStepCompleted or
\* handleStepFailed passes the ids of the command to the saga manager.
Answer(c, sagaID, stepID) ==
  /\ Exists(sagaID)
  /\ stepID < NumSteps(sagaID)
  /\ StepInFlight(sagaID, stepID)
  /\ \/ HandleStepCompletion(c, sagaID, stepID)
     \/ HandleStepFailure(c, sagaID, stepID)

Answers == \E sagaID \in 1..MaxSagas, stepID \in 0..2 : Answer("h1", sagaID, stepID)

\* the goroutines run on: the steps a handler or the processor has left
HandlerSteps ==
  \/ ReleaseAndCleanup("h1")
  \/ DeferredUnlock("h1")
  \/ NextStepDispatch("h1")
  \/ NextStepMark("h1")
  \/ CompensationBegin("h1")
  \/ CompensationStep("h1")
  \/ CompensationMark("h1")

\* simulations register and never leave; every command is answered
NextAnswered ==
  \/ \E id \in Sims : HandleRegister(id)
  \/ \E source \in Sims, et \in EventTypes :
       EventHandler(source, et, MaxSagas) /\ UNCHANGED otherVars
  \/ CreateSagaDispatch
  \/ CreateSagaMark
  \/ Answers
  \/ HandlerSteps

SpecAnswered ==
  /\ Init /\ [][NextAnswered]_vars
  /\ WF_vars(CreateSagaDispatch)
  /\ WF_vars(CreateSagaMark)
  /\ WF_vars(Answers)
  /\ WF_vars(HandlerSteps)

\* ------------------------------------------- acknowledgment envelopes
\* a step.completed or step.failed envelope as decoded into Message:
\* has_saga is SagaID # "", has_step is StepID # nil; the field of a missing
\* id holds the zero value from the wire sets
Acks ==
  [has_saga : BOOLEAN, saga_id : WireSagaIDs(MaxSagas - 1),
   has_step : BOOLEAN, step_id : WireStepIDs]

\* a wrapper that takes a missing step_id for step 0
HasIds_StepOptional(msg) == msg.has_saga

\* handleStepCompleted / handleStepFailed: the two checks before the saga
\* manager is called
HasIds(msg) == msg.has_saga /\ msg.has_step

\* handleStepCompleted: an envelope without saga_id or step_id is logged
\* and dropped, any other is passed to HandleStepCompletion
handleStepCompleted(c, msg) ==
  IF HasIds(msg)
  THEN HandleStepCompletion(c, msg.saga_id, IF msg.has_step THEN msg.step_id ELSE 0)
  ELSE CanReceive(c) /\ UNCHANGED vars

\* handleStepFailed: the same in front of HandleStepFailure
handleStepFailed(c, msg) ==
  IF HasIds(msg)
  THEN HandleStepFailure(c, msg.saga_id, IF msg.has_step THEN msg.step_id ELSE 0)
  ELSE CanReceive(c) /\ UNCHANGED vars

\* the engine with the acknowledgments as the handler of a connection
\* reads them
NextAck ==
  \/ \E id \in Sims : HandleRegister(id)
  \/ \E source \in RaceSources, et \in EventTypes :
       EventHandler(source, et, MaxSagas - 1) /\ UNCHANGED otherVars
  \/ CreateSagaDispatch
  \/ CreateSagaMark
  \/ \E msg \in Acks : handleStepCompleted("h1", msg)
  \/ \E msg \in Acks : handleStepFailed("h1", msg)
  \/ HandlerSteps

SpecAck == Init /\ [][NextAck]_vars

\* ------------------------------------------------------------ event queue
engineVars == << registry, sagas, simulationLocks, lockHolder, activeSagas,
                 proc, task, sent, completions, notFound, failures, crashed,
                 conn, scenario, matched >>

\* HandleWebSocket reads an event message and calls Enqueue, which takes
\* the read lock and tests eq.closed.  On a closed queue it returns false,
\* and the handler writes one error/queue_full frame (ignoring the result
\* of the write) and goes on reading.
EnqueueBegin(p, et, w) ==
  /\ Running
  /\ prod[p].pc = "idle"
  /\ calls < MaxEvents
  /\ calls' = calls + 1
  /\ LET qe == QueuedEvent(p, et, w, calls + 1)
     IN IF closed
        THEN /\ rejected' = Append(rejected, qe)
             /\ replies' = [replies EXCEPT ![p] = Append(@, qe.n)]
             /\ prod' = prod
        ELSE /\ prod' = [prod EXCEPT ![p] = [pc |-> "rlocked", ev |-> qe]]
             /\ UNCHANGED << rejected, replies >>
  /\ UNCHANGED << events, closed, consumerExited, closes, accepted, processed >>
  /\ UNCHANGED engineVars

\* the channel send of the select can proceed: the buffer is not full
HasRoom_Always(q) == TRUE

HasRoom(q) == Len(q) < Capacity

\* Enqueue: the select.  The send succeeds if the buffer has room, else
\* the default case returns false (and the handler writes one
\* error/queue_full frame); the deferred RUnlock runs.  A send on a closed
\* channel panics.
EnqueueSend(p) ==
  /\ Running
  /\ prod[p].pc = "rlocked"
  /\ prod' = [prod EXCEPT ![p] = IdleProd]
  /\ LET qe == prod[p].ev
     IN IF closed
        THEN /\ crashed' = "send on closed channel"
             /\ UNCHANGED << events, accepted, rejected, replies >>
        ELSE IF HasRoom(events)
        THEN /\ events' = Append(events, qe)
             /\ accepted' = Append(accepted, qe)
             /\ UNCHANGED << rejected, replies, crashed >>
        ELSE /\ rejected' = Append(rejected, qe)
             /\ replies' = [replies EXCEPT ![p] = Append(@, qe.n)]
             /\ UNCHANGED << events, accepted, crashed >>
  /\ UNCHANGED << closed, consumerExited, calls, closes, processed >>
  /\ UNCHANGED << registry, sagas, simulationLocks, lockHolder, activeSagas,
                  proc, task, sent, completions, notFound, failures, conn,
                  scenario, matched >>

\* a Close that does not take the lock
WriteLockFree_NoLock(pr) == TRUE

\* eq.mu.Lock() can be taken: no Enqueue call holds the read lock
WriteLockFree(pr) == \A p \in Producers : pr[p].pc # "rlocked"

\* Close: takes the write lock, which waits for the readers; closes the
\* channel unless eq.closed is already set.
Close ==
  /\ Running
  /\ closes < MaxCloses
  /\ WriteLockFree(prod)
  /\ closes' = closes + 1
  /\ closed' = TRUE
  /\ UNCHANGED << events, prod, consumerExited, calls, accepted, rejected,
                  processed, replies >>
  /\ UNCHANGED engineVars

\* CreateEventHandler: Event.Source is the sourceID the handler was called
\* with, which is the simID the event was enqueued under
EventSource_FromWire(qe) == IF qe.Source = "" THEN qe.SourceID ELSE qe.Source

EventSource(qe) == qe.SourceID

\* which element of the buffer a receive takes: the oldest
ReceiveIndex_Newest(q) == Len(q)

ReceiveIndex(q) == 1

\* the buffer without its i-th element
Without(q, i) == SubSeq(q, 1, i - 1) \o SubSeq(q, i + 1, Len(q))

\* StartProcessor: the loop receives the next event from the channel
\* (also from a closed channel that still has events) and calls the
\* processor with it; the loop is back at the receive once the processor
\* has returned.
QueueReceive(limit) ==
  /\ ~consumerExited
  /\ Len(events) > 0
  /\ LET i == ReceiveIndex(events)
         qe == events[i]
     IN /\ events' = Without(events, i)
        /\ processed' = Append(processed, qe)
        /\ EventHandler(EventSource(qe), qe.EventType, limit)
  /\ UNCHANGED << closed, prod, consumerExited, calls, closes, accepted,
                  rejected, replies, conn, scenario, matched >>

\* a receive from the closed channel finds no event left
Drained_Always(q) == TRUE

Drained(q) == Len(q) = 0

\* StartProcessor: the range loop ends when the channel is closed and
\* empty
ConsumerExit ==
  /\ Running
  /\ ~consumerExited
  /\ proc.pc = "idle"
  /\ closed
  /\ Drained(events)
  /\ consumerExited' = TRUE
  /\ UNCHANGED << events, closed, prod, calls, closes, accepted, rejected,
                  processed, replies >>
  /\ UNCHANGED engineVars

NextQueueOf(types, wires) ==
  \/ \E p \in Producers, et \in types, w \in wires : EnqueueBegin(p, et, w)
  \/ \E p \in Producers : EnqueueSend(p)
  \/ Close
  \/ QueueReceive(MaxEvents)
  \/ ConsumerExit
  \/ CreateSagaDispatch
  \/ CreateSagaMark

NextQueue == NextQueueOf(EventTypes, {""})

SpecQueue == InitRace /\ [][NextQueue]_vars

\* ------------------------------------------------------------ rule matcher
\* the rules and events the matcher is run on
ThenLists ==
  { << Action("vr", "show_alert", "msg", "", "") >>,
    << Action("cyber", "lockdown", "p4", "unlock", "q4"),
       Action("vr", "on", "p1", "off", "q1") >>,
    << >> }

RuleUniverse ==
  [when : [event_type : EventTypes, from : {"", "vr", "sensor"}],
   then : ThenLists]

RuleSets == UNION { [1..n -> RuleUniverse] : n \in 0..MaxRules }

MatchEvents == [EventType : EventTypes, Source : Sims]

\* a scenario manager with no scenario or with any of the rule sets loaded
InitMatch ==
  /\ scenario \in {NoScenario} \cup { Loaded(rs) : rs \in RuleSets }
  /\ matched = NoCall
  /\ registry = [x \in Sims |-> "none"]
  /\ conn = [c \in Conns |-> NewConn]
  /\ InitQueue
  /\ sagas = << >>
  /\ simulationLocks = [x \in Sims |-> "free"]
  /\ lockHolder = [x \in Sims |-> 0]
  /\ activeSagas = [x \in Sims |-> << >>]
  /\ proc = IdleProc
  /\ task = [h \in Handlers |-> IdleTask]
  /\ sent = << >>
  /\ completions = << >>
  /\ notFound = << >>
  /\ failures = << >>
  /\ crashed = "no"

\* a call of ProcessEvent
CallProcessEvent(event) ==
  /\ matched' = [called |-> TRUE, event |-> event,
                 actions |-> ProcessEvent(event)]
  /\ UNCHANGED << registry, sagas, simulationLocks, lockHolder, activeSagas,
                  proc, task, sent, completions, notFound, failures, crashed,
                  conn, queueVars, scenario >>

NextMatch == \E event \in MatchEvents : CallProcessEvent(event)

SpecMatch == InitMatch /\ [][NextMatch]_vars

\* The consumer is a goroutine of its own: the Go scheduler runs it
\* whenever it can proceed, and CreateSaga does not wait for anything (it
\* uses TryLock and one WriteJSON).  Whether the consumer gets through the
\* queue does not depend on what the events are: the fair specification
\* queues alert events only.
NextQueueLive == NextQueueOf({"alert"}, {""})

\* the source field a client writes into its event messages: none, or the
\* id of another simulation
WireSources == {"", "cyber"}

\* the queue fed with alert events that carry any of these source fields
NextWire == NextQueueOf({"alert"}, WireSources)

SpecWire == InitRace /\ [][NextWire]_vars

SpecQueueLive ==
  /\ InitRace /\ [][NextQueueLive]_vars
  /\ WF_vars(QueueReceive(MaxEvents))
  /\ WF_vars(ConsumerExit)
  /\ WF_vars(CreateSagaDispatch)
  /\ WF_vars(CreateSagaMark)

SpecRace == InitRace /\ [][NextRace]_vars

\* ------------------------------------------------------------- properties
\* what has been observed of a saga so far
Frames(s, kind) == SelectSeq(sent[s], LAMBDA f : f.kind = kind)

\* the frames of that kind whose write returned nil
Delivered(s, kind) == SelectSeq(sent[s], LAMBDA f : f.kind = kind /\ f.ok)

StepIds(frames) == [j \in 1..Len(frames) |-> frames[j].step_id]

\* the step ids 0, 1, ..., n-1 in order
Iota(n) == [j \in 1..n |-> j - 1]

StepIndexes(s) == 0..(NumSteps(s) - 1)

\* no goroutine is in the middle of an operation on saga s
Quiet(s) == proc.saga # s /\ \A h \in Handlers : task[h].saga # s

\* the envelope fields of a frame
Envelope(f) ==
  [type |-> f.type, command |-> f.command, params |-> f.params,
   saga_id |-> f.saga_id, step_id |-> f.step_id, to |-> f.to]

\* C1: in every reachable state no two sagas whose status is neither
\* Completed nor Failed have a step that targets the same simulation id.
C1_NoSharedTarget ==
  \A s1, s2 \in SagaIdx :
    (s1 # s2 /\ NonTerminal(s1) /\ NonTerminal(s2))
      => Targets(s1) \cap Targets(s2) = {}

\* C2: from publication until its status first becomes Completed or Failed,
\* a saga holds the exclusion lock of each of its targets.  A saga whose
\* status is Pending or InProgress has never been Completed or Failed (no
\* assignment leads back to these two), so while the process runs each of
\* its targets' locks is locked, and locked on its behalf.
C2_LocksHeldUntilTerminal ==
  Running =>
    \A s \in SagaIdx :
      sagas[s].Status \in {SagaStatusPending, SagaStatusInProgress}
        => \A x \in Targets(s) :
             simulationLocks[x] = "locked" /\ lockHolder[x] = s

\* C3: within a saga the commands are written for steps 0, 1, 2, ... in this
\* order, the command for step i+1 only once step i has been set Completed
\* by a step.completed for step i, and a step other than step 0 is InFlight
\* (or beyond) only if the step before it has been acknowledged.
C3_SequentialDispatch ==
  \A s \in SagaIdx :
    LET fw == StepIds(Frames(s, "forward"))
    IN /\ fw = Iota(Len(fw))
       /\ completions[s] = Iota(Len(completions[s]))
       /\ Len(fw) <= Len(completions[s]) + 1
       /\ \A k \in StepIndexes(s) :
            StepStatus(s, k) \in {StepStatusInFlight, StepStatusCompleted}
              => k < Len(fw) /\ k <= Len(completions[s])

\* a three-step saga whose third step is InFlight after two acknowledgments
C3_Witness ==
  \E s \in SagaIdx :
    /\ NumSteps(s) = 3
    /\ StepStatus(s, 2) = StepStatusInFlight
    /\ completions[s] = << 0, 1 >>
    /\ StepIds(Frames(s, "forward")) = << 0, 1, 2 >>

C5_CompletedSagaAllStepsOnce ==
  \A s \in SagaIdx :
    sagas[s].Status = SagaStatusCompleted
      => /\ completions[s] = Iota(NumSteps(s))
         /\ \A k \in StepIndexes(s) : StepStatus(s, k) = StepStatusCompleted

\* C6: a compensation command is written only for a step whose status is
\* Completed at that moment, and the compensation commands that one saga's
\* targets receive carry strictly decreasing step ids (so no step receives
\* one twice).
C6_CompensationDecreasing ==
  /\ [](\A s \in SagaIdx :
          LET cp == StepIds(Delivered(s, "compensate"))
          IN \A a, b \in 1..Len(cp) : a < b => cp[a] > cp[b])
  /\ [][\A s \in SagaIdx :
          (Len(sent'[s]) > Len(sent[s])
             /\ sent'[s][Len(sent'[s])].kind = "compensate")
            => StepStatus(s, sent'[s][Len(sent'[s])].step_id) = StepStatusCompleted]_vars

\* C7: in a saga that has ended Failed, each step that was Completed (and
\* has a compensate_command to send) has had a compensation write attempted,
\* unless its target was not registered when the compensation reached it.
C7_CompletedStepsCompensated ==
  \A s \in SagaIdx :
    (sagas[s].Status = SagaStatusFailed /\ Quiet(s))
      => \A k \in Range(completions[s]) :
           \/ sagas[s].Steps[k + 1].CompensateCommand = ""
           \/ k \in notFound[s]
           \/ k \in Range(StepIds(Frames(s, "compensate")))

\* the compensation envelopes due after the failure of step k: one for
\* each step below k, highest first, that has a compensate_command and
\* whose target was registered
RECURSIVE CompensationsDue(_, _)
CompensationsDue(s, i) ==
  IF i < 0 THEN << >>
  ELSE LET step == sagas[s].Steps[i + 1]
       IN IF step.CompensateCommand = "" \/ i \in notFound[s]
          THEN CompensationsDue(s, i - 1)
          ELSE << [type |-> "command", command |-> step.CompensateCommand,
                   params |-> step.CompensateParams, saga_id |-> sagas[s].SagaID,
                   step_id |-> i, to |-> step.TargetSimulation] >>
               \o CompensationsDue(s, i - 1)

\* the one step.failed handled for saga s named step k, which was InFlight,
\* in an InProgress saga whose steps 0..k-1 had been acknowledged, and the
\* handler has finished its work on the saga
FailureHandled(s, k) ==
  /\ failures[s] = << [step |-> k, was |-> StepStatusInFlight,
                       saga |-> SagaStatusInProgress] >>
  /\ completions[s] = Iota(k)
  /\ Quiet(s)

\* C8: after a step.failed for the InFlight step k of a saga whose steps
\* 0..k-1 are Completed, step k is Failed, exactly one compensation command
\* has been written for each step below k that has a compensate_command and
\* a registered target, none for step k or a later step, the saga is Failed
\* and none of its exclusion locks is held for it any more.
C8_StepFailedCompensates ==
  \A s \in SagaIdx : \A k \in StepIndexes(s) :
    FailureHandled(s, k)
      => /\ StepStatus(s, k) = StepStatusFailed
         /\ [j \in 1..Len(Frames(s, "compensate")) |->
               Envelope(Frames(s, "compensate")[j])] = CompensationsDue(s, k - 1)
         /\ sagas[s].Status = SagaStatusFailed
         /\ \A x \in Targets(s) : lockHolder[x] # s
         /\ \A x \in Sims : ~(\E j \in 1..Len(activeSagas[x]) : activeSagas[x][j] = s)

\* the third step of a three-step saga has failed and both earlier steps
\* have had their compensation written
C8_Witness ==
  \E s \in SagaIdx :
    /\ FailureHandled(s, 2)
    /\ StepIds(Frames(s, "compensate")) = << 1, 0 >>

\* C9: a single-action saga has one command frame written for it (step 0,
\* the action's command and params); once its step.completed has been
\* applied the saga is Completed, the process is still running and, when
\* the handler has finished, the target's lock is no longer held for it.
C9_SingleActionSaga ==
  \A s \in SagaIdx :
    (NumSteps(s) = 1 /\ completions[s] = << 0 >>)
      => /\ sagas[s].Status = SagaStatusCompleted
         /\ Running
         /\ [j \in 1..Len(sent[s]) |-> Envelope(sent[s][j])] =
              << [type |-> "command", command |-> sagas[s].Steps[1].Command,
                  params |-> sagas[s].Steps[1].Params, saga_id |-> s,
                  step_id |-> 0, to |-> sagas[s].Steps[1].TargetSimulation] >>
         /\ Quiet(s) => \A x \in Targets(s) : lockHolder[x] # s

\* a requested target's lock is held for a saga that is not Completed or
\* Failed
HeldByRunningSaga(actions) ==
  \E k \in 1..Len(actions) : \E s \in SagaIdx :
    /\ NonTerminal(s)
    /\ simulationLocks[actions[k].send_to] = "locked"
    /\ lockHolder[actions[k].send_to] = s

\* C10: a CreateSaga that finds one of its targets held for a non-terminal
\* saga writes no frame, publishes no record and leaves every lock as it
\* was; and once a saga is Completed and its handler has finished, the
\* process is running with the saga's targets no longer held for it, so
\* that a CreateSaga for the same targets can succeed.
C10_ConflictThenRetry ==
  /\ [][\A source \in Sims, et \in EventTypes :
          (/\ EventHandler(source, et, MaxSagas)
           /\ HeldByRunningSaga(ProcessEvent([EventType |-> et, Source |-> source])))
            => UNCHANGED << sagas, sent, simulationLocks, lockHolder, activeSagas >>]_vars
  /\ [](\A s \in SagaIdx :
          (sagas[s].Status = SagaStatusCompleted /\ Quiet(s))
            => /\ Running
               /\ \A x \in Targets(s) : lockHolder[x] # s)

\* C11: once the operation that made a saga Completed or Failed has
\* returned, none of the saga's exclusion locks is held for it and the saga
\* is tracked as active on no simulation.
C11_TerminatedSagaHoldsNothing ==
  \A s \in SagaIdx :
    (sagas[s].Status \in Terminal /\ Quiet(s))
      => /\ \A x \in Targets(s) : lockHolder[x] # s
         /\ \A x \in Sims : s \notin Range(activeSagas[x])

C13_LateFailureIgnored ==
  [][\A c \in Handlers, sagaID \in WireSagaIDs(MaxSagas), stepID \in WireStepIDs :
       (/\ HandleStepFailure(c, sagaID, stepID)
        /\ Exists(sagaID)
        /\ stepID \in StepIndexes(sagaID)
        /\ \/ ~StepInFlight(sagaID, stepID)
           \/ sagas[sagaID].Status \in Terminal)
         => UNCHANGED << sagas, sent, simulationLocks, lockHolder, activeSagas >>]_vars

\* a step of saga s is InFlight against simulation id
InFlightAgainst(s, id) ==
  \E k \in StepIndexes(s) :
    /\ sagas[s].Steps[k + 1].TargetSimulation = id
    /\ StepStatus(s, k) = StepStatusInFlight

\* C14: when the connection of a simulation closes, every saga that has a
\* step InFlight against it is Failed once the close has been handled, and
\* none of its exclusion locks is held for it any more.
C14_DisconnectFailsSaga ==
  [][\A id \in Sims :
       HandleDisconnect(id)
         => \A s \in SagaIdx :
              InFlightAgainst(s, id)
                => /\ sagas'[s].Status = SagaStatusFailed
                   /\ \A x \in Targets(s) : lockHolder'[x] # s]_vars

\* the sagas for which the exclusion lock of id is held
Holding(id) ==
  { s \in SagaIdx : simulationLocks[id] = "locked" /\ lockHolder[id] = s }

\* C15: registering an id that is already registered stores the new
\* connection, so that later lookups and dispatches use it, and a saga that
\* still holds the id's exclusion lock and is not yet Completed or Failed
\* is Failed once the registration has been handled.
C15_ReRegisterFailsSaga ==
  [][\A c \in Conns, id \in Sims :
       (ConnRegister(c, id) /\ Get(id))
         => /\ registry'[id] = c
            /\ \A s \in Holding(id) :
                 NonTerminal(s) => sagas'[s].Status = SagaStatusFailed]_vars

\* a is an initial part of b
IsPrefix(a, b) == Len(a) <= Len(b) /\ a = SubSeq(b, 1, Len(a))

\* the events of q that producer p sent, in the order of q
FromProducer(q, p) == SelectSeq(q, LAMBDA e : e.SourceID = p)

\* the call numbers of the events of q grow along q
InCallOrder(q) ==
  \A i \in 1..Len(q) : \A j \in 1..Len(q) : i < j => q[i].n < q[j].n

\* C16: the events handed to the processor are the accepted events in the
\* order in which their Enqueue calls succeeded (so the events of one
\* connection are processed in the order it sent them), one at a time: an
\* event is handed over only when the processor has returned from the
\* event before.
C16_FifoOneAtATime ==
  /\ [](/\ IsPrefix(processed, accepted)
        /\ \A p \in Producers : InCallOrder(FromProducer(processed, p)))
  /\ [][processed' # processed
          => /\ proc.pc = "idle"
             /\ Len(processed') = Len(processed) + 1]_vars

C16_Witness ==
  /\ Len(processed) = 3
  /\ processed[1].n = 2 /\ processed[2].n = 1
  /\ processed[3].SourceID = processed[1].SourceID
  /\ Len(sagas) > 0

\* C17: Enqueue never blocks; on a full buffer it returns false: nothing is
\* queued, the handler writes exactly one error/queue_full frame to the
\* producer and goes on reading from the connection, and the rejected
\* event is never handed to the processor, so no saga is created for it.
C17_FullQueueRejects ==
  /\ [](/\ \A p \in Producers :
             prod[p].pc = "rlocked" => ENABLED EnqueueSend(p)
        /\ \A k \in 1..Len(rejected) : rejected[k] \notin Range(processed))
  /\ [][\A p \in Producers :
          (EnqueueSend(p) /\ Len(events) = Capacity)
            => /\ events' = events
               /\ accepted' = accepted
               /\ rejected' = Append(rejected, prod[p].ev)
               /\ replies' = [replies EXCEPT ![p] = Append(@, prod[p].ev.n)]
               /\ prod'[p] = IdleProd
               /\ sagas' = sagas]_vars

C17_Witness ==
  /\ closes = 0
  /\ Len(rejected) = 1
  /\ replies[rejected[1].SourceID] = << rejected[1].n >>
  /\ Len(processed) = Capacity
  /\ Len(events) = 0
  /\ proc.pc = "idle"
  /\ Len(sagas) > 0

\* C18: a Close of an already closed queue changes nothing and does not
\* fail; once the queue is closed no Enqueue is in progress, every Enqueue
\* returns false and queues nothing; the consumer keeps processing the
\* events that are queued and exits after the last one, having processed
\* every accepted event.
C18_CloseIdempotentDrains ==
  /\ [](/\ closed => \A p \in Producers : prod[p].pc = "idle"
        /\ crashed = "no"
        /\ consumerExited => (Len(events) = 0 /\ processed = accepted))
  /\ [][(Close /\ closed) => UNCHANGED << engineVars, events, closed, prod,
            consumerExited, calls, accepted, rejected, processed, replies >>]_vars
  /\ [][\A p \in Producers, et \in EventTypes, w \in WireSources :
          (EnqueueBegin(p, et, w) /\ closed)
            => /\ events' = events
               /\ accepted' = accepted
               /\ prod' = prod
               /\ rejected' =
                    Append(rejected, QueuedEvent(p, et, w, calls + 1))]_vars
  /\ closed ~> consumerExited

C18_Witness ==
  /\ closes = 2
  /\ ~consumerExited
  /\ Len(events) = 1
  /\ Len(accepted) = 1
  /\ Len(rejected) = 1

\* the rule matches the event: the event types are equal and the rule
\* names no source or the event's
Matches(rule, event) ==
  /\ rule.when.event_type = event.EventType
  /\ rule.when.from = "" \/ rule.when.from = event.Source

\* the then-lists of the matching rules among the first k, concatenated in
\* rule order
RECURSIVE ThenOfMatching(_, _, _)
ThenOfMatching(rs, event, k) ==
  IF k = 0 THEN << >>
  ELSE ThenOfMatching(rs, event, k - 1)
         \o (IF Matches(rs[k], event) THEN rs[k].then ELSE << >>)

\* C19: ProcessEvent returns the concatenation, in rule order, of the
\* then-lists of the rules whose event_type is the event's and whose from
\* is absent or the event's source (nothing when no scenario is loaded);
\* the call changes nothing but its result.
C19_ProcessEventConcatenates ==
  /\ [](matched.called
          => matched.actions =
               ThenOfMatching(scenario.rules, matched.event,
                              Len(scenario.rules)))
  /\ [][\A event \in MatchEvents :
          CallProcessEvent(event)
            => UNCHANGED << scenario, registry, conn, queueVars, sagas,
                            simulationLocks, lockHolder, activeSagas, proc,
                            task, sent, completions, notFound, failures,
                            crashed >>]_vars

C19_Witness ==
  /\ matched.called
  /\ Len(scenario.rules) = 2
  /\ scenario.rules[1].when.from = matched.event.Source
  /\ scenario.rules[2].when.from = ""
  /\ Len(scenario.rules[1].then) = 2
  /\ Len(scenario.rules[2].then) = 1
  /\ matched.actions = scenario.rules[1].then \o scenario.rules[2].then

\* the event of a queued event, as CreateEventHandler builds it
EventOf(qe) == [EventType |-> qe.EventType, Source |-> qe.SourceID]

\* C20: processing an event for which ProcessEvent returns no action (no
\* rule matches, or no scenario is loaded) creates no saga, locks no
\* simulation, writes no frame and returns at once.
C20_NoMatchNoEffect ==
  [][\A source \in Sims, et \in EventTypes :
       (/\ EventHandler(source, et, MaxEvents)
        /\ ProcessEvent([EventType |-> et, Source |-> source]) = << >>)
         => UNCHANGED << sagas, simulationLocks, lockHolder, activeSagas,
                         sent, proc >>]_vars

C20_Witness ==
  /\ scenario.loaded
  /\ Len(processed) = 2
  /\ ProcessEvent(EventOf(processed[1])) # << >>
  /\ ProcessEvent(EventOf(processed[2])) = << >>
  /\ Len(sagas) = 1
  /\ proc.pc = "idle"

\* C21: the source an event is matched with is the id its connection
\* registered under, whatever source field the client wrote: every event
\* handed to the processor is processed as EventHandler does for the
\* registered id, so the field has no influence on the sagas created.
C21_SourceIsRegisteredId ==
  [][processed' # processed
       => LET qe == processed'[Len(processed')]
          IN /\ qe.SourceID \in Producers
             /\ EventHandler(qe.SourceID, qe.EventType, MaxEvents)]_vars

C21_Witness ==
  /\ Len(processed) = 1
  /\ processed[1].SourceID = "sensor"
  /\ processed[1].Source = "cyber"
  /\ Len(sagas) = 1
  /\ [k \in 1..NumSteps(1) |-> sagas[1].Steps[k].TargetSimulation]
       = << "vr", "cyber" >>

\* CreateSaga's dispatch of step 0 fails in this step: the target is not
\* registered or the write returns an error
FirstDispatchFails == CreateSagaDispatch /\ proc'.pc # "cs_mark"

\* C22: when the dispatch of step 0 fails inside CreateSaga, the saga is
\* Failed, the locks acquired for it are released and it is no longer
\* tracked, CreateSaga returns, no compensation command has been written
\* for the saga and none of its steps is InFlight or Completed.
C22_FirstDispatchFailure ==
  [][FirstDispatchFails
       => LET s == proc.saga
          IN /\ sagas'[s].Status = SagaStatusFailed
             /\ \A x \in Targets(s) :
                  /\ lockHolder'[x] # s
                  /\ s \notin Range(activeSagas'[x])
             /\ proc' = IdleProc
             /\ crashed' = "no"
             /\ \A k \in 1..Len(sent'[s]) : sent'[s][k].kind # "compensate"
             /\ \A k \in 1..NumSteps(s) :
                  sagas'[s].Steps[k].Status
                    \notin {StepStatusInFlight, StepStatusCompleted}]_vars

\* steps 0..k of saga s have been acknowledged, no step.failed has been
\* handled for it, and it is Failed: the dispatch of step k+1 failed and
\* the handler has finished the compensation
NextDispatchFailed(s, k) ==
  /\ failures[s] = << >>
  /\ completions[s] = Iota(k + 1)
  /\ sagas[s].Status = SagaStatusFailed
  /\ Quiet(s)

\* C23: when the dispatch of step k+1 fails after step k has been
\* acknowledged, one compensation command is written for each of the steps
\* k, k-1, ..., 0 in this order (those with a compensate_command and a
\* registered target), the saga is Failed, and step k+1 is still Pending
\* with no command delivered for it.
C23_NextDispatchFailure ==
  \A s \in SagaIdx : \A k \in StepIndexes(s) :
    NextDispatchFailed(s, k)
      => /\ k + 1 < NumSteps(s)
         /\ [j \in 1..Len(Frames(s, "compensate")) |->
               Envelope(Frames(s, "compensate")[j])] = CompensationsDue(s, k)
         /\ StepStatus(s, k + 1) = StepStatusPending
         /\ StepIds(Delivered(s, "forward")) = Iota(k + 1)
         /\ \A j \in k + 1 .. NumSteps(s) - 1 :
              StepStatus(s, j) # StepStatusInFlight

C23_Witness ==
  \E s \in SagaIdx :
    /\ NextDispatchFailed(s, 1)
    /\ StepIds(Frames(s, "compensate")) = << 1, 0 >>
    /\ NumSteps(s) = 3

\* the targets of an action list
ActionTargets(actions) == { actions[k].send_to : k \in 1..Len(actions) }

\* the action list names a simulation more than once
NamesTwice(actions) ==
  \E i, j \in 1..Len(actions) : i # j /\ actions[i].send_to = actions[j].send_to

\* the event handler, called for this event now, creates a saga that holds
\* the lock of each target and goes on to dispatch step 0
CreatesSaga(source, et) ==
  LET actions == ProcessEvent([EventType |-> et, Source |-> source])
  IN ENABLED (/\ EventHandler(source, et, MaxSagas)
              /\ Len(sagas') = Len(sagas) + 1
              /\ \A x \in ActionTargets(actions) :
                   /\ simulationLocks'[x] = "locked"
                   /\ lockHolder'[x] = Len(sagas')
              /\ proc'.pc = "cs_dispatch")

\* C24: CreateSaga takes one lock per distinct target: an event whose
\* action list names a free, registered simulation more than once gets a
\* saga that holds the lock of each of its targets and whose step 0 is
\* dispatched.
C24_OneLockPerDistinctTarget ==
  \A source \in Sims, et \in EventTypes :
    LET actions == ProcessEvent([EventType |-> et, Source |-> source])
    IN (/\ Running /\ proc.pc = "idle" /\ Len(sagas) < MaxSagas
        /\ NamesTwice(actions)
        /\ ~HasConflict(actions)
        /\ \A x \in ActionTargets(actions) :
             Get(x) /\ simulationLocks[x] = "free")
         => CreatesSaga(source, et)

\* the index of the furthest step of saga s that has been dispatched: the
\* highest step a command was sent for (-1 when there is none)
RECURSIVE FurthestFrom(_, _)
FurthestFrom(s, k) ==
  IF k < 0 THEN -1
  ELSE IF k \in Range(StepIds(Delivered(s, "forward"))) THEN k
  ELSE FurthestFrom(s, k - 1)

Furthest(s) == FurthestFrom(s, NumSteps(s) - 1)

\* the saga has compensated
\* saga s compensated after one step.failed for its in-flight step k, which
\* arrived when the steps 0..k-1 had been acknowledged: these k steps were
\* Completed when compensation started
CompensatedAfter(s, k) ==
  /\ Quiet(s)
  /\ sagas[s].Status = SagaStatusFailed
  /\ Len(failures[s]) = 1
  /\ failures[s][1].step = k
  /\ failures[s][1].was = StepStatusInFlight
  /\ completions[s] = Iota(k)

\* the command frames written with the saga_id of s
CommandFrames(s) == Len(Frames(s, "forward")) + Len(Frames(s, "compensate"))

C26_WritesSerialized ==
  [][\A s \in SagaIdx :
       Len(sent'[s]) > Len(sent[s])
         => conn[sent'[s][Len(sent'[s])].via].pc # "replying"]_vars

\* C27: once the status of a saga is Completed or Failed, no step of the
\* program changes that status or moves one of the saga's steps to InFlight.
C27_TerminalStatuses ==
  [][\A s \in SagaIdx :
       sagas[s].Status \in {SagaStatusCompleted, SagaStatusFailed}
         => /\ sagas'[s].Status = sagas[s].Status
            /\ \A k \in StepIndexes(s) :
                 sagas'[s].Steps[k + 1].Status = StepStatusInFlight
                   => StepStatus(s, k) = StepStatusInFlight]_vars

\* the connections the registry refers to
Registered == {registry[id] : id \in Sims} \ {"none"}

\* C28: when a connection's first envelope is a register message with a
\* non-empty id, the entry of that id becomes the connection and the handler
\* is past the registered reply (written, or failed and the handler has
\* returned); for any other first envelope the registry does not change and
\* the handler returns.  A handler that has returned takes no further step,
\* and an entry for a connection appears only by its registration.
C28_RegistrationOnly ==
  [][/\ \A c \in Conns, msg \in FirstEnvelopes :
          ConnFirst(c, msg)
            => IF msg.type = "register" /\ msg.id # ""
               THEN /\ registry' = [registry EXCEPT ![msg.id] = c]
                    /\ conn'[c] \in {[pc |-> "registered", id |-> msg.id],
                                     ClosedConn}
               ELSE /\ registry' = registry
                    /\ conn'[c] = ClosedConn
     /\ \A c \in Conns :
          /\ conn[c].pc = "closed" => conn'[c] = conn[c]
          /\ (c \in Registered' /\ c \notin Registered) => conn[c].pc = "new"
    ]_vars

\* a connection whose first envelope was accepted is registered, and
\* another one was turned away
C28_Witness ==
  /\ conn["a"] = [pc |-> "registered", id |-> "vr"]
  /\ registry["vr"] = "a"
  /\ conn["b"] = ClosedConn
  /\ "b" \notin Registered

\* C29: no registry entry refers to a connection whose handler has returned.
C29_ClosedUnregistered ==
  \A id \in Sims :
    registry[id] # "none" => conn[registry[id]].pc # "closed"

\* C30: when a registered connection's handler reads a malformed envelope,
\* the connection stays open and registered and the registry does not change.
C30_MalformedDropped ==
  [][\A c \in Conns :
       (conn[c].pc = "registered" /\ ConnRead(c, "malformed"))
         => /\ conn'[c] = conn[c]
            /\ registry' = registry]_vars

\* C31: no two sagas have the same saga_id, so the record published under
\* an id stays the record the saga map holds for it.
C31_UniqueSagaIDs ==
  /\ \A i, j \in SagaIdx : sagas[i].SagaID = sagas[j].SagaID => i = j
  /\ \A i \in SagaIdx : Lookup(sagas[i].SagaID) = i

\* no exclusion lock is held on behalf of saga s
Released(s) == \A x \in Targets(s) : lockHolder[x] # s

\* C32: when every command is answered and no simulation leaves, every
\* saga that was created eventually is Completed or Failed with its
\* exclusion locks released.
C32_EventuallyEndsAndReleases ==
  \A s \in 1..MaxSagas :
    Exists(s) ~> (Exists(s) /\ sagas[s].Status \in Terminal /\ Released(s))

\* C33: no handler returns from HandleStepCompletion or HandleStepFailure
\* with a deferred saga.mu.Unlock() left to run on a lock it has already
\* released, and so the saga lock is never unlocked while it is not held.
C33_SagaLockBalanced ==
  /\ \A h \in Handlers : task[h].pc # "ret_unlock"
  /\ crashed # "Unlock of unlocked RWMutex"

\* the commands written for the steps after step 0 of saga s
NextStepFrames(s) == SelectSeq(sent[s], LAMBDA f : f.kind = "forward" /\ f.step_id > 0)

\* C34: for a saga whose status is Failed or Compensating no handler
\* writes the command of a next step and none of the steps after step 0
\* is set InFlight.
C34_NoForwardAfterFailure ==
  [][\A s \in SagaIdx :
       sagas[s].Status \in {SagaStatusFailed, SagaStatusCompensating}
         => /\ NextStepFrames(s)' = NextStepFrames(s)
            /\ \A k \in StepIndexes(s) \ {0} :
                 sagas'[s].Steps[k + 1].Status = StepStatusInFlight
                   => StepStatus(s, k) = StepStatusInFlight]_vars

\* the command of step k of saga s has reached its target, which has not
\* answered it yet; no step.failed was handled for s
AwaitsAnswer(s, k) ==
  /\ \E j \in 1..Len(sent[s]) :
       sent[s][j].kind = "forward" /\ sent[s][j].step_id = k /\ sent[s][j].ok
  /\ k \notin Range(completions[s])
  /\ failures[s] = << >>

\* step.completed for step k of saga s, handled now, completes the step
AnswerCompletes(s, k) ==
  ENABLED (/\ HandleStepCompletion("h1", s, k)
           /\ sagas'[s].Steps[k + 1].Status = StepStatusCompleted)

\* C35: whenever the target of a step has received its command and a
\* handler is free to take the answer, the step.completed for this step is
\* applied: the step becomes Completed.
C35_AnswerNeverDiscarded ==
  \A s \in SagaIdx : \A k \in StepIndexes(s) :
    (CanReceive("h1") /\ AwaitsAnswer(s, k)) => AnswerCompletes(s, k)

\* C36: when the handler of a connection ends, the registry entries that
\* refer to other connections stay as they are.
C36_OwnRegistrationOnly ==
  [][\A c \in Conns :
       ConnClose(c)
         => \A id \in Sims :
              registry[id] # c => registry'[id] = registry[id]]_vars

\* the acknowledgment cannot be applied: an id is missing, the saga_id
\* names no saga or the step_id no step of the saga
Inapplicable(msg) ==
  \/ ~msg.has_saga
  \/ ~msg.has_step
  \/ ~Exists(msg.saga_id)
  \/ msg.step_id < 0
  \/ msg.step_id >= NumSteps(msg.saga_id)

\* C37: a step.completed or step.failed envelope that cannot be applied
\* changes no saga and no step, writes no frame, and releases or untracks
\* no exclusion lock; the handler is free for the next envelope.
C37_InapplicableAckIgnored ==
  [][\A msg \in Acks :
       (Inapplicable(msg)
          /\ (handleStepCompleted("h1", msg) \/ handleStepFailed("h1", msg)))
         => UNCHANGED << sagas, sent, simulationLocks, lockHolder, activeSagas,
                         task, completions, failures, crashed >>]_vars

\* a saga waits for the answer to step 0 and the handler is free to read
\* an acknowledgment that names another saga
C37_Witness ==
  /\ CanReceive("h1")
  /\ Len(sagas) = 1
  /\ StepStatus(1, 0) = StepStatusInFlight
  /\ [has_saga |-> TRUE, saga_id |-> 2, has_step |-> TRUE, step_id |-> 0] \in Acks
  /\ Inapplicable([has_saga |-> TRUE, saga_id |-> 2, has_step |-> TRUE, step_id |-> 0])


\* ------------------------------------------------- the locks of the engine
\* The lock operations and the network writes of the saga engine, in the
\* order each call makes them.  A goroutine is the event processor (proc) or
\* a connection handler (task[h]); while it is inside a call its record is
\* [pc |-> "run", todo |-> the operations it has still to make, holds |-> the
\* acquisitions it has made and not yet released].  The calls are followed
\* along every branch whatever the saga's data, all on one saga record and
\* one target simulation, so that every pair of calls contends.
Threads == {"proc"} \cup Handlers

\* SagaManager.mu, SagaManager.lockMu, Saga.mu
SmMu == "sm.mu"
LockMu == "sm.lockMu"
SagaMu == "saga.mu"
ManagerMutexes == {SmMu, LockMu, SagaMu}

\* the *sync.Mutex stored in simulationLocks for the target simulation
SimMu == "simulationLocks[vr]"

Do(op, m) == [op |-> op, m |-> m]

WriteJSON == Do("WriteJSON", "conn")

\* sm.mu.RLock(); saga, exists := sm.sagas[sagaID]; sm.mu.RUnlock()
GetSagaOps == << Do("RLock", SmMu), Do("RUnlock", SmMu) >>

\* dispatchStep: the write fails (a target that is not registered returns
\* the same way without the write), or the write is made and the step
\* marked under saga.mu
dispatchStepFailedOps == { << WriteJSON >> }

\* a dispatch that writes inside the critical section that marks the step
dispatchStepOps_UnderLock ==
  << Do("Lock", SagaMu), WriteJSON, Do("Unlock", SagaMu) >>

dispatchStepOps == << WriteJSON, Do("Lock", SagaMu), Do("Unlock", SagaMu) >>

\* one iteration of the loop of triggerCompensation: the step is skipped
\* after its status was read, or the write is made and the step marked (a
\* failed write continues like a skipped step)
CompensationIterations ==
  { << Do("RLock", SagaMu), Do("RUnlock", SagaMu) >>,
    << Do("RLock", SagaMu), Do("RUnlock", SagaMu), WriteJSON,
       Do("Lock", SagaMu), Do("Unlock", SagaMu) >> }

triggerCompensationOps ==
  { << Do("Lock", SagaMu), Do("Unlock", SagaMu) >> \o it
      \o << Do("Lock", SagaMu), Do("Unlock", SagaMu) >> :
    it \in CompensationIterations }

\* untrackActiveSimulation for the one simulation of the saga
cleanupSimulationLocksOps == << Do("Lock", LockMu), Do("Unlock", LockMu) >>

releaseAllLocksForSagaOps ==
  << Do("Lock", LockMu), Do("Unlock", SimMu), Do("Unlock", LockMu) >>

releaseSimulationLockOps ==
  << Do("Unlock", SimMu), Do("Lock", LockMu), Do("Unlock", LockMu) >>

\* an acquisition that waits for the simulation's mutex
acquireSimulationLockOps_Blocking ==
  << Do("Lock", LockMu), Do("Lock", SimMu), Do("Unlock", LockMu) >>

\* lockMu.Lock(); defer lockMu.Unlock(); lock.TryLock()
acquireSimulationLockOps ==
  << Do("Lock", LockMu), Do("TryLock", SimMu), Do("Unlock", LockMu) >>

\* CheckConflict: the tracked sagas are looked up under sm.mu.RLock inside
\* lockMu (with no saga tracked lockMu alone is taken)
CheckConflictOps ==
  << Do("Lock", LockMu), Do("RLock", SmMu), Do("RUnlock", SmMu),
     Do("Unlock", LockMu) >>

\* sm.mu.Lock(); sm.sagas[sagaID] = saga; sm.mu.Unlock()
StoreSagaOps == << Do("Lock", SmMu), Do("Unlock", SmMu) >>

trackActiveSimulationOps == << Do("Lock", LockMu), Do("Unlock", LockMu) >>

\* CreateSaga: a conflict ends the call; otherwise the lock is tried (a
\* failed TryLock ends the call after the deferred lockMu.Unlock), the saga
\* stored and tracked and step 0 dispatched; a failed dispatch releases the
\* lock, untracks and marks the saga Failed
CreateSagaOps ==
  { CheckConflictOps,
    CheckConflictOps \o acquireSimulationLockOps \o StoreSagaOps
      \o trackActiveSimulationOps \o dispatchStepOps }
  \cup { CheckConflictOps \o acquireSimulationLockOps \o StoreSagaOps
            \o trackActiveSimulationOps \o d \o releaseSimulationLockOps
            \o cleanupSimulationLocksOps
            \o << Do("Lock", SagaMu), Do("Unlock", SagaMu) >> :
         d \in dispatchStepFailedOps }

\* HandleStepCompletion: saga not found; invalid or duplicate acknowledgment
\* (return under the deferred Unlock); last step (Unlock at 403, cleanup and
\* release, then the deferred Unlock); next step dispatched (Unlock at 413,
\* Lock at 424, deferred Unlock); next step not dispatched (compensation,
\* return, deferred Unlock)
HandleStepCompletionOps ==
  { GetSagaOps,
    GetSagaOps \o << Do("Lock", SagaMu), Do("Unlock", SagaMu) >>,
    GetSagaOps \o << Do("Lock", SagaMu), Do("Unlock", SagaMu) >>
      \o cleanupSimulationLocksOps \o releaseAllLocksForSagaOps
      \o << Do("Unlock", SagaMu) >>,
    GetSagaOps \o << Do("Lock", SagaMu), Do("Unlock", SagaMu) >>
      \o dispatchStepOps
      \o << Do("Lock", SagaMu), Do("Unlock", SagaMu) >> }
  \cup { GetSagaOps \o << Do("Lock", SagaMu), Do("Unlock", SagaMu) >>
           \o d \o tc \o << Do("Unlock", SagaMu) >> :
         d \in dispatchStepFailedOps, tc \in triggerCompensationOps }

\* HandleStepFailure: saga not found; invalid step (deferred Unlock); Unlock
\* at 456, compensation, cleanup and release, then the deferred Unlock
HandleStepFailureOps ==
  { GetSagaOps,
    GetSagaOps \o << Do("Lock", SagaMu), Do("Unlock", SagaMu) >> }
  \cup { GetSagaOps \o << Do("Lock", SagaMu), Do("Unlock", SagaMu) >>
           \o tc \o cleanupSimulationLocksOps \o releaseAllLocksForSagaOps
           \o << Do("Unlock", SagaMu) >> :
         tc \in triggerCompensationOps }

\* the goroutines' records
Now == [t \in Threads |-> IF t = "proc" THEN proc ELSE task[t]]

Become(f) ==
  /\ proc' = f["proc"]
  /\ task' = [h \in Handlers |-> f[h]]

Idle(t) == IF t = "proc" THEN IdleProc ELSE IdleTask

\* the goroutine has made an acquisition that is not released yet
Alive(t) == Now[t].pc = "run"

\* the goroutine is inside a call
InCall(t) == Alive(t) /\ Now[t].todo # << >>

NextOp(t) == Head(Now[t].todo)

\* a lock of one of the manager's mutexes that is in force
Live(holds) == { e \in holds : e.live }

\* the record after the operation at the head of todo was made; a call
\* that returns with a lock in force leaves the mutex locked
After(t, holds) ==
  IF Len(Now[t].todo) = 1 /\ Live(holds) = {} THEN Idle(t)
  ELSE [pc |-> "run", todo |-> Tail(Now[t].todo), holds |-> holds]

Acquired(m, w) == [m |-> m, w |-> w, live |-> TRUE]

\* the mutex is write-locked / read-locked
WriteLocked(m) ==
  IF m = SimMu THEN simulationLocks["vr"] = "locked"
  ELSE \E u \in Threads : Alive(u) /\ Acquired(m, TRUE) \in Now[u].holds

ReadLocked(m) ==
  \E u \in Threads : Alive(u) /\ Acquired(m, FALSE) \in Now[u].holds

lockVars == << registry, sagas, lockHolder, activeSagas, sent, completions,
               notFound, failures >>

\* a call begins
Call(t, ops) ==
  /\ Running
  /\ ~Alive(t)
  /\ Become([Now EXCEPT ![t] = [pc |-> "run", todo |-> ops, holds |-> {}]])
  /\ UNCHANGED << simulationLocks, crashed, lockVars >>
  /\ UNCHANGED otherVars

\* mu.Lock(): waits until nobody holds the mutex
DoLock(t) ==
  /\ Running
  /\ InCall(t)
  /\ NextOp(t).op = "Lock"
  /\ ~WriteLocked(NextOp(t).m)
  /\ ~ReadLocked(NextOp(t).m)
  /\ IF NextOp(t).m = SimMu
       THEN /\ simulationLocks' = [simulationLocks EXCEPT !["vr"] = "locked"]
            /\ Become([Now EXCEPT ![t] = After(t, Now[t].holds)])
       ELSE /\ Become([Now EXCEPT ![t] =
                 After(t, Now[t].holds \cup {Acquired(NextOp(t).m, TRUE)})])
            /\ UNCHANGED simulationLocks
  /\ UNCHANGED << crashed, lockVars >>
  /\ UNCHANGED otherVars

\* mu.RLock(): waits until no writer holds the mutex
DoRLock(t) ==
  /\ Running
  /\ InCall(t)
  /\ NextOp(t).op = "RLock"
  /\ ~WriteLocked(NextOp(t).m)
  /\ Become([Now EXCEPT ![t] =
       After(t, Now[t].holds \cup {Acquired(NextOp(t).m, FALSE)})])
  /\ UNCHANGED << simulationLocks, crashed, lockVars >>
  /\ UNCHANGED otherVars

DoRUnlock(t) ==
  /\ Running
  /\ InCall(t)
  /\ NextOp(t).op = "RUnlock"
  /\ Become([Now EXCEPT ![t] =
       After(t, Now[t].holds \ {Acquired(NextOp(t).m, FALSE)})])
  /\ UNCHANGED << simulationLocks, crashed, lockVars >>
  /\ UNCHANGED otherVars

\* lock.TryLock() of acquireSimulationLock: never waits; when the mutex is
\* taken the call returns after the deferred lockMu.Unlock()
DoTryLock(t) ==
  /\ Running
  /\ InCall(t)
  /\ NextOp(t).op = "TryLock"
  /\ IF simulationLocks["vr"] = "locked"
       THEN /\ Become([Now EXCEPT ![t].todo = << Do("Unlock", LockMu) >>])
            /\ UNCHANGED simulationLocks
       ELSE /\ Become([Now EXCEPT ![t] = After(t, Now[t].holds)])
            /\ simulationLocks' = [simulationLocks EXCEPT !["vr"] = "locked"]
  /\ UNCHANGED << crashed, lockVars >>
  /\ UNCHANGED otherVars

\* the acquisition of m the goroutine made itself, if it still has one
Own(t, m) == { e \in Now[t].holds : e.m = m /\ e.w }

\* the goroutines other than t whose write lock of m is in force
Holders(t, m) ==
  { u \in Threads \ {t} : Alive(u) /\ Acquired(m, TRUE) \in Now[u].holds }

Stolen(m) == [m |-> m, w |-> TRUE, live |-> FALSE]

\* mu.Unlock() of one of the manager's mutexes: releases the write lock
\* whoever took it; fatal when the mutex is not write-locked
DoUnlock(t) ==
  /\ Running
  /\ InCall(t)
  /\ NextOp(t).op = "Unlock"
  /\ NextOp(t).m # SimMu
  /\ LET m == NextOp(t).m
         rest == Now[t].holds \ Own(t, m)
     IN  IF Acquired(m, TRUE) \in Now[t].holds
           THEN /\ Become([Now EXCEPT ![t] = After(t, rest)])
                /\ UNCHANGED crashed
           ELSE IF Holders(t, m) # {}
             THEN /\ \E u \in Holders(t, m) :
                       Become([Now EXCEPT
                         ![t] = After(t, rest),
                         ![u].holds = (@ \ {Acquired(m, TRUE)})
                                        \cup {Stolen(m)}])
                  /\ UNCHANGED crashed
             ELSE /\ crashed' = IF m = SagaMu
                                  THEN "Unlock of unlocked RWMutex"
                                  ELSE "unlock of unlocked mutex"
                  /\ UNCHANGED << proc, task >>
  /\ UNCHANGED << simulationLocks, lockVars >>
  /\ UNCHANGED otherVars

\* lock.Unlock() of the simulation's mutex
DoSimUnlock(t) ==
  /\ Running
  /\ InCall(t)
  /\ NextOp(t) = Do("Unlock", SimMu)
  /\ IF simulationLocks["vr"] = "locked"
       THEN /\ simulationLocks' = [simulationLocks EXCEPT !["vr"] = "free"]
            /\ Become([Now EXCEPT ![t] = After(t, Now[t].holds)])
            /\ UNCHANGED crashed
       ELSE /\ crashed' = "unlock of unlocked mutex"
            /\ UNCHANGED << simulationLocks, proc, task >>
  /\ UNCHANGED lockVars
  /\ UNCHANGED otherVars

\* Connection.WriteJSON of dispatchStep or triggerCompensation
DoWrite(t) ==
  /\ Running
  /\ InCall(t)
  /\ NextOp(t) = WriteJSON
  /\ Become([Now EXCEPT ![t] = After(t, Now[t].holds)])
  /\ UNCHANGED << simulationLocks, crashed, lockVars >>
  /\ UNCHANGED otherVars

NextLocks ==
  \/ \E ops \in CreateSagaOps : Call("proc", ops)
  \/ \E h \in Handlers, ops \in HandleStepCompletionOps : Call(h, ops)
  \/ \E h \in Handlers, ops \in HandleStepFailureOps : Call(h, ops)
  \/ \E t \in Threads : DoLock(t)
  \/ \E t \in Threads : DoRLock(t)
  \/ \E t \in Threads : DoRUnlock(t)
  \/ \E t \in Threads : DoTryLock(t)
  \/ \E t \in Threads : DoUnlock(t)
  \/ \E t \in Threads : DoSimUnlock(t)
  \/ \E t \in Threads : DoWrite(t)

InitLocks == Init /\ scenario = NoScenario

SpecLocks == InitLocks /\ [][NextLocks]_vars

\* C38: a goroutine about to make a network write (the command of
\* dispatchStep or the compensation command of triggerCompensation) holds
\* none of sm.mu, sm.lockMu and saga.mu.
C38_NoWriteUnderLock ==
  \A t \in Threads :
    (InCall(t) /\ NextOp(t) = WriteJSON) =>
      \A e \in Now[t].holds : e.m \notin ManagerMutexes

\* a goroutine is about to write while another one holds saga.mu
C38_Witness ==
  \E t \in Threads, u \in Threads :
    /\ t # u
    /\ InCall(t) /\ NextOp(t) = WriteJSON
    /\ Alive(u) /\ Acquired(SagaMu, TRUE) \in Now[u].holds

\* the goroutine waits for a mutex
Blocked(t) ==
  /\ InCall(t)
  /\ \/ /\ NextOp(t).op = "Lock"
        /\ WriteLocked(NextOp(t).m) \/ ReadLocked(NextOp(t).m)
     \/ /\ NextOp(t).op = "RLock"
        /\ WriteLocked(NextOp(t).m)

\* the goroutine can make its next operation
CanStep(t) == InCall(t) /\ ~Blocked(t)

\* C39: the engine never deadlocks on its own locks: whenever a goroutine
\* waits for a mutex, the mutex is sm.mu, sm.lockMu or saga.mu (the event
\* processor never waits for a simulation's exclusion lock) and some
\* goroutine inside a call can make its next operation, so no set of
\* goroutines running CreateSaga, HandleStepCompletion, HandleStepFailure
\* and compensation waits for one another.
C39_NoDeadlock ==
  \A t \in Threads :
    Blocked(t) =>
      /\ NextOp(t).m \in ManagerMutexes
      /\ \E u \in Threads : CanStep(u)

\* the processor and a handler both wait for a mutex
C39_Witness ==
  /\ Blocked("proc")
  /\ \E h \in Handlers : Blocked(h)

\* C40: whatever the interleaving of Enqueue calls with Close, no event is
\* sent on the closed channel: an Enqueue call that has passed the test of
\* eq.closed makes its send while the channel is still open, and a call
\* that begins after Close returns false.
C40_NoSendOnClosed ==
  /\ crashed # "send on closed channel"
  /\ \A p \in Producers : prod[p].pc = "rlocked" => ~closed

\* the queue is closed; one event was accepted before and, the buffer never
\* having been full, one was turned away after
C40_Witness ==
  /\ closed
  /\ Len(accepted) = 1
  /\ Len(processed) = 0
  /\ Len(rejected) >= 1
  /\ \A p \in Producers : prod[p].pc = "idle"

====
